---- MODULE Spec2Model ----
(***************************************************************************)
(* The layer store of App.tsx, the pointer handlers of CanvasRenderer.tsx  *)
(* and the layer list of LayerManager, as a state machine.                 *)
(*                                                                         *)
(* Numbers: positions (x, y, pointer coordinates) are in tenths of a       *)
(* pixel; lineHeight and scale are in tenths; fontSize, width and height   *)
(* are whole pixels.  So fontSize * lineHeight and width * scale are       *)
(* tenths of a pixel, as the positions they are added to.  The zoom factor *)
(* is in thousandths, and a floating-point sum of it is off by at most one *)
(* thousandth either way.                                                  *)
(* Strings are sequences of one-character strings.                         *)
(* Layer ids are the successive draws of generateId, taken to be pairwise  *)
(* distinct: the n-th draw is the number n.                                *)
(* A handler reads the layers of its closure, those of the last render;    *)
(* React renders at the end of each of its events, and in a later task     *)
(* after a state is set by the onload of an uploaded image.                *)
(***************************************************************************)
EXTENDS Integers, Sequences, FiniteSets, TLC

\* ------------------------------------------------------------- bounds
\* the number of events (handler runs and load completions) a behaviour of the
\* editor, and one of the store on its own, is followed for
MaxEvents == 6
MaxStoreEvents == 4
MaxUploadEvents == 6
MaxViewEvents == 22
MaxChatEvents == 4
MaxRenderEvents == 6
MaxBoundaryEvents == 5
\* the number of lines of the texts parseChatlog is called on
MaxLines == 4
\* the number of lines of the texts whose colours and timestamps are looked at
MaxLogLines == 2

VARIABLES
    layers,            \* App: useState<Layer[]>
    rendered,          \* the layers of the last render, which the handlers' closures hold
    selectedLayerId,   \* App: useState<string | null>
    zoom,              \* App: zoom factor, in thousandths
    canvasSize,        \* App: {width, height}
    pendingImages,     \* handleAddBaseImage: bitmaps whose onload has not fired yet
    nextId,            \* number of ids generateId has drawn so far, plus one
    isDragging,        \* CanvasRenderer
    dragStart,         \* CanvasRenderer
    initialLayerPos,   \* CanvasRenderer
    hasError,          \* ErrorBoundary.state.hasError
    loadedImages,      \* CanvasRenderer: the bitmaps loaded, by layer id
    imageLoads,        \* CanvasRenderer: the Images whose onload has not fired yet
    budget,            \* the number of events still to be followed
    last,              \* the handler that ran last, with its arguments
    pre,               \* layers, selection and drag flag as they were when it started
    last2,             \* the handler that ran before it (recorded when keepTwo)
    pre2,              \* the state when that one started (recorded when keepTwo)
    keepTwo,           \* whether last2 and pre2 are recorded; fixed by Init
    grab               \* the last pointer-down that hit: the layer, where it was, the pointer

storeVars == <<layers, selectedLayerId>>
viewVars == <<zoom, canvasSize>>
dragVars == <<isDragging, dragStart, initialLayerPos>>
vars == <<layers, rendered, selectedLayerId, zoom, canvasSize, pendingImages, nextId,
          isDragging, dragStart, initialLayerPos, hasError, loadedImages,
          imageLoads, budget, last, pre, last2, pre2, keepTwo, grab>>

\* ------------------------------------------------------------- values
Null == 0
UNDEFINED == [type |-> "undefined"]
IMAGE == "image"
TEXT == "text"

Min(a, b) == IF a < b THEN a ELSE b
Max(a, b) == IF a > b THEN a ELSE b

\* The texts of the four quick-add buttons.
SampleText == <<"S","a","m","p","l","e"," ","T","e","x","t">>
ActionText == <<"*"," ","A","c","t","i","o","n"," ","T","e","x","t">>
OocText == <<"(","("," ","O","O","C"," ","T","e","x","t"," ",")",")">>
RadioText == <<"R","a","d","i","o",":"," ","t","e","x","t">>
BaseImageName == <<"B","a","s","e"," ","I","m","a","g","e">>
ChatLineName == <<"C","h","a","t"," ","L","i","n","e">>
CopySuffix == <<" ","(","C","o","p","y",")">>

\* ------------------------------------------------------------- array helpers
\* Array.prototype.reverse
Reverse(s) == [i \in 1..Len(s) |-> s[Len(s) + 1 - i]]

\* Array.prototype.find, hits being the indexes of s whose element the callback
\* accepts: the first such element, or undefined
Find(s, hits) ==
    IF hits = {} THEN UNDEFINED
    ELSE s[CHOOSE i \in hits : \A j \in hits : i <= j]

\* String.prototype.substring(0, n)
Substring0(s, n) == SubSeq(s, 1, Min(n, Len(s)))

\* String.prototype.split('\n').length
RECURSIVE CountNewlines(_)
CountNewlines(s) ==
    IF s = <<>> THEN 0
    ELSE (IF Head(s) = "\n" THEN 1 ELSE 0) + CountNewlines(Tail(s))

LineCount(s) == CountNewlines(s) + 1

\* the start index Array.prototype.splice works from: negative counts from the end,
\* and the result is clamped to 0..length
SpliceStart(start, len) ==
    IF start < 0 THEN Max(len + start, 0) ELSE Min(start, len)

\* { ...l, ...updates }
Merge(l, updates) ==
    [k \in DOMAIN l \cup DOMAIN updates |->
        IF k \in DOMAIN updates THEN updates[k] ELSE l[k]]

\* the value of a parameter with a default: the argument when one is passed
ArgOr(args, k, default) == IF k \in DOMAIN args THEN args[k] ELSE default

Defined(ls) == \A i \in 1..Len(ls) : ls[i] # UNDEFINED

\* ------------------------------------------------------------- utils
\* the white space that trim and \s take away (of it, what the inputs use)
WhiteSpace == {" ", "\t", "\r"}

Digits == {"0", "1", "2", "3", "4", "5", "6", "7", "8", "9"}

UpperCase == <<"A","B","C","D","E","F","G","H","I","J","K","L","M",
               "N","O","P","Q","R","S","T","U","V","W","X","Y","Z">>
LowerCase == <<"a","b","c","d","e","f","g","h","i","j","k","l","m",
               "n","o","p","q","r","s","t","u","v","w","x","y","z">>

\* String.prototype.toLowerCase
ToLowerCase(s) ==
    [i \in 1..Len(s) |->
        IF \E k \in 1..26 : UpperCase[k] = s[i]
        THEN LowerCase[CHOOSE k \in 1..26 : UpperCase[k] = s[i]]
        ELSE s[i]]

\* String.prototype.startsWith, endsWith, includes
StartsWith(s, p) == Len(s) >= Len(p) /\ SubSeq(s, 1, Len(p)) = p
EndsWith(s, p) == Len(s) >= Len(p) /\ SubSeq(s, Len(s) - Len(p) + 1, Len(s)) = p
Includes(s, p) == \E k \in 1..(Len(s) - Len(p) + 1) : SubSeq(s, k, k + Len(p) - 1) = p

\* String.prototype.trim
RECURSIVE TrimStart(_)
TrimStart(s) ==
    IF s # <<>> /\ Head(s) \in WhiteSpace THEN TrimStart(Tail(s)) ELSE s

RECURSIVE TrimEnd(_)
TrimEnd(s) ==
    IF s # <<>> /\ s[Len(s)] \in WhiteSpace THEN TrimEnd(SubSeq(s, 1, Len(s) - 1)) ELSE s

Trim(s) == TrimEnd(TrimStart(s))

\* String.prototype.split('\n')
RECURSIVE Split(_)
Split(s) ==
    LET breaks == {k \in 1..Len(s) : s[k] = "\n"}
    IN IF breaks = {} THEN <<s>>
       ELSE LET k == CHOOSE b \in breaks : \A c \in breaks : b <= c
            IN <<SubSeq(s, 1, k - 1)>> \o Split(SubSeq(s, k + 1, Len(s)))

\* a classification that tries the OOC brackets before the speech verbs
detectChatColorBracketsFirst(text) ==
    LET lower == ToLowerCase(text)
    IN IF StartsWith(text, <<"*">>) THEN "#C2A2DA"
       ELSE IF StartsWith(lower, <<"(", "(">>) \/ EndsWith(lower, <<")", ")">>)
            THEN "#A9C4E4"
       ELSE "#FFFFFF"

\* detectChatColor
detectChatColor(text) ==
    LET lower == ToLowerCase(text)
    IN IF StartsWith(text, <<"*">>) THEN "#C2A2DA"
       ELSE IF Includes(lower, <<"s","a","y","s",":">>) THEN "#FFFFFF"
       ELSE IF Includes(lower, <<"s","h","o","u","t","s",":">>) THEN "#FFFFFF"
       ELSE IF Includes(lower, <<"w","h","i","s","p","e","r","s",":">>) THEN "#FFFFFF"
       ELSE IF StartsWith(lower, <<"(", "(">>) \/ EndsWith(lower, <<")", ")">>)
            THEN "#A9C4E4"
       ELSE "#FFFFFF"

\* a pattern that takes any ten characters in square brackets for a timestamp
HasBracketPrefix(line) ==
    Len(line) >= 10 /\ line[1] = "[" /\ line[10] = "]"

\* /^\[\d{2}:\d{2}:\d{2}\]/ matches at the start of line
HasTimestamp(line) ==
    /\ Len(line) >= 10
    /\ line[1] = "[" /\ line[4] = ":" /\ line[7] = ":" /\ line[10] = "]"
    /\ \A k \in {2, 3, 5, 6, 8, 9} : line[k] \in Digits

\* line.replace(/^\[\d{2}:\d{2}:\d{2}\]\s*/, '')
CleanText(line) ==
    IF HasTimestamp(line) THEN TrimStart(SubSeq(line, 11, Len(line))) ELSE line

\* a filter that lets every line through
AllLines(lines) == lines

\* lines.filter(l => l.trim() !== '')
NonBlankLines(lines) == SelectSeq(lines, LAMBDA l : Trim(l) # <<>>)

\* parseChatlog(rawText, startY = 50); args holds the arguments passed
parseChatlog(args) ==
    LET lines == NonBlankLines(Split(args.rawText))
        startY == ArgOr(args, "startY", 500)
    IN [i \in 1..Len(lines) |->
           [content |-> CleanText(lines[i]),
            color |-> detectChatColor(CleanText(lines[i])),
            y |-> startY + 240 * (i - 1)]]

\* ------------------------------------------------------------- the layer store (App)
\* a boundary that goes on rendering its children
MountedStill == TRUE

\* ErrorBoundary.render: the children, App with its handlers, are there as long as
\* hasError is false
Mounted == ~hasError

Snapshot == [layers |-> layers, rendered |-> rendered, selectedLayerId |-> selectedLayerId,
             isDragging |-> isDragging, canvasSize |-> canvasSize, zoom |-> zoom]

\* Records the handler that runs and the state it starts from.
Log(op) ==
    /\ budget > 0
    /\ budget' = budget - 1
    /\ last' = op
    /\ pre' = Snapshot
    /\ IF keepTwo THEN last2' = last /\ pre2' = pre ELSE UNCHANGED <<last2, pre2>>
    /\ UNCHANGED keepTwo
    /\ grab' = IF "hit" \in DOMAIN op /\ op.hit # Null
               THEN LET l == Find(rendered, {i \in 1..Len(rendered) : rendered[i].id = op.hit})
                    IN [id |-> l.id, x |-> l.x, y |-> l.y, px |-> op.x, py |-> op.y]
               ELSE grab

\* generateId(): the next draw
generateId == nextId

\* ------------------------------------------------------------- image loading (CanvasRenderer)
\* !loadedImages[layer.id]
Loaded(loaded, id) == \E e \in loaded : e.id = id

\* the body of the image effect: a new Image, with the layer's src, for every Image
\* layer that has no bitmap in loadedImages; the src of a layer that has none
\* reads "undefined"
LoadsStarted(ls, loaded) ==
    LET wanted == SelectSeq(ls, LAMBDA l : l.type = IMAGE /\ ~Loaded(loaded, l.id))
    IN [i \in 1..Len(wanted) |-> [id |-> wanted[i].id, src |-> ArgOr(wanted[i], "src", "undefined")]]

\* setLoadedImages(prev => ({ ...prev, [layer.id]: img }))
WithBitmap(loaded, load) == {e \in loaded : e.id # load.id} \cup {load}

\* the render that follows a handler of a React event, before the next event: the
\* closures get the new layers. The image effect has the dependencies
\* [layers, loadedImages]: it runs when layers is another array than at the last
\* render (setLayers always passes a new one) and the editor is still mounted.
Rendered(layersSet) ==
    /\ rendered' = layers'
    /\ imageLoads' = IF (layersSet \/ rendered # layers) /\ ~hasError'
                      THEN imageLoads \o LoadsStarted(layers', loadedImages)
                      ELSE imageLoads
    /\ UNCHANGED loadedImages

\* the render React schedules for a state set outside its events (by img.onload of
\* handleAddBaseImage): it comes in a later task
scheduledRender ==
    /\ Mounted
    /\ rendered # layers
    /\ rendered' = layers
    /\ imageLoads' = imageLoads \o LoadsStarted(layers, loadedImages)
    /\ UNCHANGED <<storeVars, viewVars, pendingImages, nextId, dragVars, hasError,
                   loadedImages, budget, last, pre, last2, pre2, keepTwo, grab>>

\* an image layer that is not locked, as the text layers are
NewImageLayerUnlocked(id, img) ==
    [id |-> id, type |-> IMAGE, name |-> BaseImageName, visible |-> TRUE,
     locked |-> FALSE, src |-> img.src, x |-> 0, y |-> 0,
     width |-> img.width, height |-> img.height, scale |-> 10, rotation |-> 0,
     filters |-> [brightness |-> 100, contrast |-> 100, saturation |-> 100, blur |-> 0]]

NewImageLayer(id, img) ==
    [id |-> id, type |-> IMAGE, name |-> BaseImageName, visible |-> TRUE,
     locked |-> TRUE, src |-> img.src, x |-> 0, y |-> 0,
     width |-> img.width, height |-> img.height, scale |-> 10, rotation |-> 0,
     filters |-> [brightness |-> 100, contrast |-> 100, saturation |-> 100, blur |-> 0]]

NewTextLayer(id, text, color, y) ==
    [id |-> id, type |-> TEXT, name |-> Substring0(text, 15), visible |-> TRUE,
     locked |-> FALSE, content |-> text, x |-> 500, y |-> y, fontSize |-> 14,
     fontFamily |-> "Arial, sans-serif", color |-> color, strokeColor |-> "#000000",
     strokeWidth |-> 2, shadowBlur |-> 0, lineHeight |-> 12, isBold |-> TRUE,
     isItalic |-> FALSE]

\* a chat line built as handleAddText builds a layer
NewChatLayerAsText(id, item) == NewTextLayer(id, item.content, item.color, item.y)

NewChatLayer(id, item) ==
    [id |-> id, type |-> TEXT, name |-> ChatLineName, visible |-> TRUE,
     locked |-> FALSE, content |-> item.content, x |-> 300, y |-> item.y,
     fontSize |-> 13, fontFamily |-> "Arial", color |-> item.color,
     strokeColor |-> "#000000", strokeWidth |-> 2, shadowBlur |-> 0,
     lineHeight |-> 11, isBold |-> TRUE, isItalic |-> FALSE]

\* handleAddBaseImage: the file, if any, goes to the FileReader and then to an Image;
\* nothing of the store changes until that Image's onload fires.
handleAddBaseImage(file) ==
    /\ Mounted
    /\ IF file = UNDEFINED
       THEN UNCHANGED pendingImages
       ELSE pendingImages' = Append(pendingImages, file)
    /\ UNCHANGED <<storeVars, viewVars, dragVars, nextId, hasError>>
    /\ Log([op |-> "handleAddBaseImage", file |-> file])
    /\ Rendered(FALSE)

\* a canvas that takes the size of the first bitmap only
FirstCanvasSize(img, current) ==
    IF current = [width |-> 1280, height |-> 720]
    THEN [width |-> img.width, height |-> img.height]
    ELSE current

\* setCanvasSize({ width: img.width, height: img.height })
LoadedCanvasSize(img, current) == [width |-> img.width, height |-> img.height]

\* img.onload of handleAddBaseImage, for the i-th bitmap still in flight; the
\* render is scheduled, and until it runs the handlers see the layers of the last
\* one. When the ErrorBoundary has taken App away, its state setters do nothing.
imgOnload(i) ==
    /\ i \in 1..Len(pendingImages)
    /\ LET img == pendingImages[i]
           newLayer == NewImageLayer(generateId, img)
       IN /\ img.decodable
          /\ IF Mounted
             THEN /\ canvasSize' = LoadedCanvasSize(img, canvasSize)
                  /\ layers' = <<newLayer>> \o layers
             ELSE UNCHANGED <<canvasSize, layers>>
          /\ Log([op |-> "imgOnload", img |-> img, id |-> newLayer.id])
    /\ pendingImages' = [j \in 1..(Len(pendingImages) - 1) |->
                            IF j < i THEN pendingImages[j] ELSE pendingImages[j + 1]]
    /\ nextId' = nextId + 1
    /\ UNCHANGED <<selectedLayerId, zoom, dragVars, hasError, rendered, loadedImages,
                   imageLoads>>

\* [newLayer, ...prev]
AddedBelow(prev, newLayer) == <<newLayer>> \o prev

\* [...prev, newLayer]
AddedOnTop(prev, newLayer) == Append(prev, newLayer)

IsText(l) == l.type = TEXT

\* the Text layer lowest in the stack
FirstTextLayer(ls) == Find(ls, {i \in 1..Len(ls) : IsText(ls[i])})

LastTextLayer(ls) ==
    LET reversed == Reverse(ls)
    IN Find(reversed, {i \in 1..Len(reversed) : IsText(reversed[i])})

StartY(ls) ==
    LET lastTextLayer == LastTextLayer(ls)
    IN IF lastTextLayer # UNDEFINED
       THEN lastTextLayer.y + lastTextLayer.fontSize * lastTextLayer.lineHeight
       ELSE 500

ChosenY(yOffset, startY) == IF yOffset # 0 THEN yOffset ELSE startY

\* handleAddText(text, color = '#FFFFFF', yOffset = 0); args holds the arguments passed
handleAddText(args) ==
    /\ Mounted
    /\ LET color == ArgOr(args, "color", "#FFFFFF")
           yOffset == ArgOr(args, "yOffset", 0)
           newLayer == NewTextLayer(generateId, args.text, color,
                                    ChosenY(yOffset, StartY(rendered)))
       IN /\ layers' = AddedOnTop(layers, newLayer)
          /\ selectedLayerId' = newLayer.id
    /\ nextId' = nextId + 1
    /\ UNCHANGED <<viewVars, pendingImages, dragVars, hasError>>
    /\ Log([op |-> "handleAddText", args |-> args])
    /\ Rendered(TRUE)

handleBulkAddText(textItems) ==
    /\ Mounted
    /\ LET newLayers == [i \in 1..Len(textItems) |->
                            NewChatLayer(generateId + i - 1, textItems[i])]
       IN layers' = layers \o newLayers
    /\ nextId' = nextId + Len(textItems)
    /\ UNCHANGED <<selectedLayerId, viewVars, pendingImages, dragVars, hasError>>
    /\ Log([op |-> "handleBulkAddText", textItems |-> textItems])
    /\ Rendered(TRUE)

UpdatedLayers(ls, id, updates) ==
    [i \in 1..Len(ls) |-> IF ls[i].id = id THEN Merge(ls[i], updates) ELSE ls[i]]

\* what the render after an update throws on: drawText splits the content of a
\* visible Text layer, and the panel reads the filters of the Image layer it shows
RenderThrows(ls, sel) ==
    \/ \E i \in 1..Len(ls) :
          ls[i].visible /\ ls[i].type = TEXT /\ "content" \notin DOMAIN ls[i]
    \/ \E i \in 1..Len(ls) :
          /\ ls[i].id = sel
          /\ \A j \in 1..(i - 1) : ls[j].id # sel
          /\ ls[i].type = IMAGE /\ "filters" \notin DOMAIN ls[i]

updateLayer(id, updates) ==
    /\ Mounted
    /\ layers' = UpdatedLayers(layers, id, updates)
    /\ hasError' = RenderThrows(layers', selectedLayerId)
    /\ UNCHANGED <<selectedLayerId, viewVars, pendingImages, nextId, dragVars>>
    /\ Log([op |-> "updateLayer", id |-> id, updates |-> updates])
    /\ Rendered(TRUE)

Remaining(ls, id) == SelectSeq(ls, LAMBDA l : l.id # id)

\* a delete that leaves the selection alone
SelectionKept(sel, id) == sel

\* a delete that always clears the selection
SelectionCleared(sel, id) == Null

SelectionAfterDelete(sel, id) == IF sel = id THEN Null ELSE sel

deleteLayer(id) ==
    /\ Mounted
    /\ layers' = Remaining(layers, id)
    /\ selectedLayerId' = SelectionAfterDelete(selectedLayerId, id)
    /\ UNCHANGED <<viewVars, pendingImages, nextId, dragVars, hasError>>
    /\ Log([op |-> "deleteLayer", id |-> id])
    /\ Rendered(TRUE)

Original(ls, sel) == Find(ls, {i \in 1..Len(ls) : ls[i].id = sel})

\* a copy that keeps the id of the original
CopyWithSameId(original, id) ==
    [original EXCEPT !.name = original.name \o CopySuffix,
                     !.x = original.x + 200, !.y = original.y + 200]

\* a copy that is not moved
CopyInPlace(original, id) ==
    [original EXCEPT !.id = id, !.name = original.name \o CopySuffix]

Copy(original, id) ==
    [original EXCEPT !.id = id, !.name = original.name \o CopySuffix,
                     !.x = original.x + 200, !.y = original.y + 200]

duplicateLayer ==
    /\ Mounted
    /\ IF selectedLayerId = Null \/ Original(rendered, selectedLayerId) = UNDEFINED
       THEN UNCHANGED <<storeVars, nextId>>
       ELSE /\ LET copy == Copy(Original(rendered, selectedLayerId), generateId)
               IN /\ layers' = AddedOnTop(layers, copy)
                  /\ selectedLayerId' = copy.id
            /\ nextId' = nextId + 1
    /\ UNCHANGED <<viewVars, pendingImages, dragVars, hasError>>
    /\ Log([op |-> "duplicateLayer"])
    /\ Rendered(selectedLayerId # Null /\ Original(rendered, selectedLayerId) # UNDEFINED)

\* newLayers.splice(fromIndex, 1) and then newLayers.splice(toIndex, 0, moved)
Reordered(ls, fromIndex, toIndex) ==
    LET s1 == SpliceStart(fromIndex, Len(ls))
        removed == IF s1 < Len(ls) THEN <<ls[s1 + 1]>> ELSE <<>>
        rest == IF s1 < Len(ls)
                THEN SubSeq(ls, 1, s1) \o SubSeq(ls, s1 + 2, Len(ls))
                ELSE ls
        moved == IF removed = <<>> THEN UNDEFINED ELSE removed[1]
        s2 == SpliceStart(toIndex, Len(rest))
    IN SubSeq(rest, 1, s2) \o <<moved>> \o SubSeq(rest, s2 + 1, Len(rest))

\* reorderLayers; the render that follows reads layer.id and layer.type of every
\* entry, throws on an undefined one, and the ErrorBoundary then replaces the editor
reorderLayers(fromIndex, toIndex) ==
    /\ Mounted
    /\ layers' = Reordered(rendered, fromIndex, toIndex)
    /\ hasError' = ~Defined(layers')
    /\ UNCHANGED <<selectedLayerId, viewVars, pendingImages, nextId, dragVars>>
    /\ Log([op |-> "reorderLayers", fromIndex |-> fromIndex, toIndex |-> toIndex])
    /\ Rendered(TRUE)

setSelectedLayerId(id) ==
    /\ Mounted
    /\ selectedLayerId' = id
    /\ hasError' = RenderThrows(layers, id)
    /\ UNCHANGED <<layers, viewVars, pendingImages, nextId, dragVars>>
    /\ Log([op |-> "setSelectedLayerId", id |-> id])
    /\ Rendered(FALSE)

\* what a floating-point addition or subtraction of 0.1 is off by, at most
Rounding == {-1, 0, 1}

\* a zoom-in that stops only when the zoom is exactly at the bound
ZoomedInUnlessAtBound(prev, e) == IF prev = 3000 THEN prev ELSE prev + 100 + e

\* Math.min(prev + 0.1, 3)
ZoomedIn(prev, e) == Min(prev + 100 + e, 3000)

\* Math.max(prev - 0.1, 0.1)
ZoomedOut(prev, e) == Max(prev - 100 + e, 100)

onZoomIn ==
    /\ Mounted
    /\ \E e \in Rounding : zoom' = ZoomedIn(zoom, e)
    /\ UNCHANGED <<storeVars, canvasSize, pendingImages, nextId, dragVars, hasError>>
    /\ Log([op |-> "onZoomIn"])
    /\ Rendered(FALSE)

onZoomOut ==
    /\ Mounted
    /\ \E e \in Rounding : zoom' = ZoomedOut(zoom, e)
    /\ UNCHANGED <<storeVars, canvasSize, pendingImages, nextId, dragVars, hasError>>
    /\ Log([op |-> "onZoomOut"])
    /\ Rendered(FALSE)

\* ------------------------------------------------------------- LayerManager
\* moveLayer(index, direction) of the layer list
moveLayer(index, direction) ==
    LET newIndex == index + direction
    IN IF newIndex >= 0 /\ newIndex < Len(rendered)
       THEN reorderLayers(index, newIndex)
       ELSE /\ Mounted
            /\ UNCHANGED <<storeVars, viewVars, pendingImages, nextId, dragVars, hasError>>
            /\ Log([op |-> "moveLayer", index |-> index, direction |-> direction])
            /\ Rendered(FALSE)

\* handleChatParse of the chat tab, chatInput being what the text area holds
handleChatParse(chatInput) ==
    IF Trim(chatInput) = <<>>
    THEN /\ Mounted
         /\ UNCHANGED <<storeVars, viewVars, pendingImages, nextId, dragVars, hasError>>
         /\ Log([op |-> "handleChatParse", chatInput |-> chatInput])
         /\ Rendered(FALSE)
    ELSE handleBulkAddText(parseChatlog([rawText |-> chatInput]))

\* the arrow buttons of a row: ArrowUp is disabled on the last index, ArrowDown on 0
ArrowEnabled(realIndex, direction) ==
    IF direction = 1 THEN realIndex # Len(rendered) - 1 ELSE realIndex # 0

\* ------------------------------------------------------------- CanvasRenderer
\* the box test of the hit detection, for a text layer and for an image layer
InHitBox(layer, mouseX, mouseY) ==
    IF layer.type = TEXT
    THEN LET h == layer.fontSize * layer.lineHeight * LineCount(layer.content)
             w == Len(layer.content) * (layer.fontSize * 5)
         IN /\ mouseX >= layer.x /\ mouseX <= layer.x + w
            /\ mouseY >= layer.y /\ mouseY <= layer.y + h
    ELSE IF layer.type = IMAGE
    THEN LET w == layer.width * layer.scale
             h == layer.height * layer.scale
         IN /\ mouseX >= layer.x /\ mouseX <= layer.x + w
            /\ mouseY >= layer.y /\ mouseY <= layer.y + h
    ELSE FALSE

\* a callback that skips hidden layers only
HitIgnoringLocked(layer, mouseX, mouseY) ==
    IF ~layer.visible THEN FALSE
    ELSE InHitBox(layer, mouseX, mouseY)

\* a callback that takes any visible, unlocked layer, wherever the pointer is
HitWithoutBox(layer, mouseX, mouseY) ==
    IF ~layer.visible \/ layer.locked THEN FALSE
    ELSE TRUE

\* the callback of find in handleMouseDown
Hit(layer, mouseX, mouseY) ==
    IF ~layer.visible \/ layer.locked THEN FALSE
    ELSE InHitBox(layer, mouseX, mouseY)

\* a search from the bottom of the stack
ClickedLayerFromBottom(ls, mouseX, mouseY) ==
    Find(ls, {i \in 1..Len(ls) : Hit(ls[i], mouseX, mouseY)})

ClickedLayer(ls, mouseX, mouseY) ==
    LET reversed == Reverse(ls)
    IN Find(reversed, {i \in 1..Len(reversed) : Hit(reversed[i], mouseX, mouseY)})

\* handleMouseDown; mouseX and mouseY are the pointer in layer space
handleMouseDown(mouseX, mouseY) ==
    /\ Mounted
    /\ LET clickedLayer == ClickedLayer(rendered, mouseX, mouseY)
       IN IF clickedLayer # UNDEFINED
          THEN /\ selectedLayerId' = clickedLayer.id
               /\ isDragging' = TRUE
               /\ dragStart' = [x |-> mouseX, y |-> mouseY]
               /\ initialLayerPos' = [x |-> clickedLayer.x, y |-> clickedLayer.y]
          ELSE /\ selectedLayerId' = Null
               /\ UNCHANGED dragVars
    /\ UNCHANGED <<layers, viewVars, pendingImages, nextId, hasError>>
    /\ Log([op |-> "handleMouseDown", x |-> mouseX, y |-> mouseY, hit |-> selectedLayerId'])
    /\ Rendered(FALSE)

DragTarget(mouseX, mouseY) ==
    [x |-> initialLayerPos.x + (mouseX - dragStart.x),
     y |-> initialLayerPos.y + (mouseY - dragStart.y)]

\* handleMouseMove, whose onUpdateLayerPos is updateLayer(id, {x, y})
handleMouseMove(mouseX, mouseY) ==
    /\ Mounted
    /\ IF ~isDragging \/ selectedLayerId = Null
       THEN UNCHANGED layers
       ELSE layers' = UpdatedLayers(layers, selectedLayerId, DragTarget(mouseX, mouseY))
    /\ UNCHANGED <<selectedLayerId, viewVars, pendingImages, nextId, dragVars, hasError>>
    /\ Log([op |-> "handleMouseMove", x |-> mouseX, y |-> mouseY])
    /\ Rendered(isDragging /\ selectedLayerId # Null)

\* handleMouseUp, bound to onMouseUp and to onMouseLeave
handleMouseUp ==
    /\ Mounted
    /\ isDragging' = FALSE
    /\ UNCHANGED <<storeVars, viewVars, pendingImages, nextId, dragStart,
                   initialLayerPos, hasError>>
    /\ Log([op |-> "handleMouseUp"])
    /\ Rendered(FALSE)

\* img.onload of the image effect, for the i-th Image still in flight; an Image
\* whose src is no bitmap never gets there. loadedImages is replaced, so the
\* effect runs again.
imageOnload(i) ==
    /\ i \in 1..Len(imageLoads)
    /\ imageLoads[i].src # "undefined"
    /\ LET others == [j \in 1..(Len(imageLoads) - 1) |->
                         IF j < i THEN imageLoads[j] ELSE imageLoads[j + 1]]
       IN IF Mounted
          THEN /\ loadedImages' = WithBitmap(loadedImages, imageLoads[i])
               /\ imageLoads' = others \o LoadsStarted(layers, loadedImages')
               /\ rendered' = layers
          ELSE /\ imageLoads' = others
               /\ UNCHANGED <<loadedImages, rendered>>
    /\ UNCHANGED <<storeVars, viewVars, pendingImages, nextId, dragVars, hasError>>
    /\ Log([op |-> "imageOnload", id |-> imageLoads[i].id,
            again |-> Loaded(loadedImages, imageLoads[i].id)])

\* a drawImage that does not look whether the bitmap is there
drawImageUnguarded(layer, loaded) == <<[call |-> "drawImage", id |-> layer.id]>>

\* drawImage: returns at once without the bitmap, else one ctx.drawImage
drawImage(layer, loaded) ==
    IF ~Loaded(loaded, layer.id) THEN <<>>
    ELSE <<[call |-> "drawImage", id |-> layer.id]>>

\* drawText: the lines of the layer are filled, whatever loadedImages holds
drawText(layer) == <<[call |-> "fillText", id |-> layer.id]>>

\* the calls of forEach, in the order of the array
RECURSIVE ForEachDraw(_, _)
ForEachDraw(ls, loaded) ==
    IF ls = <<>> THEN <<>>
    ELSE (IF Head(ls).type = IMAGE THEN drawImage(Head(ls), loaded) ELSE <<>>)
         \o (IF Head(ls).type = TEXT THEN drawText(Head(ls)) ELSE <<>>)
         \o ForEachDraw(Tail(ls), loaded)

\* a render loop that draws the images first and the texts after them
RenderLoopImagesFirst(ls, loaded) ==
    ForEachDraw(SelectSeq(ls, LAMBDA l : l.visible /\ l.type = IMAGE), loaded)
    \o ForEachDraw(SelectSeq(ls, LAMBDA l : l.visible /\ l.type = TEXT), loaded)

\* the render loop of the draw effect: what is drawn on the cleared canvas, first
\* to last
RenderLoop(ls, loaded) ==
    ForEachDraw(SelectSeq(ls, LAMBDA l : l.visible), loaded)

\* ------------------------------------------------------------- PropertiesPanel
\* the layer the panel shows
PanelLayer == Original(rendered, selectedLayerId)

\* what the panel's controls pass to onChange for the layer shown
PanelUpdates(layer) ==
    {[visible |-> ~layer.visible], [locked |-> ~layer.locked]}
    \cup (IF layer.type = TEXT
          THEN {[fontSize |-> 20]}
          ELSE {[scale |-> 5]})

\* onChange={(updates) => selectedLayerId && updateLayer(selectedLayerId, updates)}
PanelChange ==
    /\ Mounted
    /\ PanelLayer # UNDEFINED
    /\ selectedLayerId # Null
    /\ \E updates \in PanelUpdates(PanelLayer) : updateLayer(selectedLayerId, updates)

\* onDelete={() => selectedLayerId && deleteLayer(selectedLayerId)}
PanelDelete ==
    /\ Mounted
    /\ PanelLayer # UNDEFINED
    /\ selectedLayerId # Null
    /\ deleteLayer(selectedLayerId)

\* onDuplicate={duplicateLayer}
PanelDuplicate ==
    /\ Mounted
    /\ PanelLayer # UNDEFINED
    /\ duplicateLayer

\* ------------------------------------------------------------- inputs
\* the bitmaps a user picks: src, natural size, and whether the browser can decode it
Files == {[src |-> "a.png", width |-> 100, height |-> 100, decodable |-> TRUE]}

\* the quick-add buttons pressed: onAddText(text, color)
QuickAdds == {[text |-> SampleText, color |-> "#FFFFFF"]}

\* what is pasted into the text area
ChatInputs ==
    {<<"*"," ","w","a","v","e","s","\n","S","t","r","a","n","g","e","r"," ","s","a","y","s",":"," ","h","i","\n","(","("," ","o","o","c"," ",")",")">>,
     <<"\n","[","1","2",":","0","0",":","0","0","]"," ","S","t","r","a","n","g","e","r"," ","s","a","y","s",":"," ","h","i","\n"," "," ","\n","(","("," ","o","o","c"," ",")",")","\n">>,
     <<" "," ","\n","\t">>}

\* pointer positions in layer space
Pointers == {[x |-> 800, y |-> 600], [x |-> 800, y |-> 720]}

\* ------------------------------------------------------------- the editor
InitHistory ==
    /\ last = [op |-> "init"]
    /\ pre = [layers |-> <<>>, rendered |-> <<>>, selectedLayerId |-> Null,
              isDragging |-> FALSE,
              canvasSize |-> [width |-> 1280, height |-> 720], zoom |-> 1000]
    /\ last2 = [op |-> "init"]
    /\ pre2 = pre
    /\ grab = [id |-> Null, x |-> 0, y |-> 0, px |-> 0, py |-> 0]

InitState ==
    /\ layers = <<>>
    /\ rendered = <<>>
    /\ selectedLayerId = Null
    /\ zoom = 1000
    /\ canvasSize = [width |-> 1280, height |-> 720]
    /\ pendingImages = <<>>
    /\ nextId = 1
    /\ isDragging = FALSE
    /\ dragStart = [x |-> 0, y |-> 0]
    /\ initialLayerPos = [x |-> 0, y |-> 0]
    /\ hasError = FALSE
    /\ loadedImages = {}
    /\ imageLoads = <<>>

InitEditor == InitState /\ InitHistory

Init == InitEditor /\ budget = MaxEvents /\ keepTwo = FALSE

\* what a user of the editor can make happen
AddImage == \E file \in Files : handleAddBaseImage(file)
ImageLoaded == \E i \in 1..Len(pendingImages) : imgOnload(i)
QuickAdd == \E args \in QuickAdds : handleAddText(args)
ListSelect == Mounted /\ \E i \in 1..Len(rendered) : setSelectedLayerId(rendered[i].id)
ListMove ==
    \E realIndex \in 0..(Len(rendered) - 1), direction \in {-1, 1} :
        ArrowEnabled(realIndex, direction) /\ moveLayer(realIndex, direction)
MouseDown == \E p \in Pointers : handleMouseDown(p.x, p.y)
MouseMove == \E p \in Pointers : handleMouseMove(p.x, p.y)
ChatParse == \E chatInput \in ChatInputs : handleChatParse(chatInput)

Next ==
    \/ AddImage
    \/ ImageLoaded
    \/ QuickAdd
    \/ ListSelect
    \/ ListMove
    \/ PanelChange
    \/ PanelDelete
    \/ PanelDuplicate
    \/ MouseDown
    \/ MouseMove
    \/ handleMouseUp
    \/ scheduledRender

Spec == Init /\ [][Next]_vars

\* ------------------------------------------------------------- the store on its own
\* The handlers of App as the operations of the layer store, called with any
\* arguments of their types.
AddTextArgs ==
    {[text |-> SampleText],
     [text |-> SampleText, color |-> "#FFFFFF", yOffset |-> 0],
     [text |-> ActionText, color |-> "#C2A2DA", yOffset |-> 300]}

ChatItems ==
    {<<[content |-> SampleText, color |-> "#FFFFFF", y |-> 500],
       [content |-> OocText, color |-> "#A9C4E4", y |-> 740]>>}

\* updates: Partial<Layer>, which has every field of a layer, id and type too
StoreUpdates ==
    {[y |-> 300, fontSize |-> 20, lineHeight |-> 15], [type |-> IMAGE], [id |-> 1]}

\* ids of layers in the store, and one that no layer has
SomeIds == 1..nextId

Indexes == -1..(Len(layers) + 2)

InitStore == InitEditor /\ budget = MaxStoreEvents /\ keepTwo = FALSE

StoreAddImage == \E file \in Files \cup {UNDEFINED} : handleAddBaseImage(file)
StoreAddText == \E args \in AddTextArgs : handleAddText(args)
StoreBulkAdd == \E textItems \in ChatItems : handleBulkAddText(textItems)
StoreUpdate == \E id \in SomeIds, updates \in StoreUpdates : updateLayer(id, updates)
StoreDelete == \E id \in SomeIds : deleteLayer(id)
StoreReorder == \E fromIndex \in Indexes, toIndex \in Indexes :
                    reorderLayers(fromIndex, toIndex)
StoreSelect ==
    /\ Mounted
    /\ \E id \in {Null} \cup {layers[i].id : i \in 1..Len(layers)} : setSelectedLayerId(id)

StoreNext ==
    \/ StoreAddImage
    \/ ImageLoaded
    \/ StoreAddText
    \/ StoreBulkAdd
    \/ StoreUpdate
    \/ StoreDelete
    \/ duplicateLayer
    \/ StoreReorder
    \/ StoreSelect
    \/ scheduledRender

StoreSpec == InitStore /\ [][StoreNext]_vars

\* ------------------------------------------------------------- duplicate and delete
\* A store that holds one layer, as adding it and editing it leave it, and the
\* operations on a layer that is there; the last two operations are recorded.
OneLayers ==
    {NewTextLayer(1, SampleText, "#FFFFFF", 500),
     NewTextLayer(1, ActionText, "#C2A2DA", 300),
     Merge(NewTextLayer(1, SampleText, "#FFFFFF", 500),
           [locked |-> TRUE, fontSize |-> 20, x |-> 0]),
     NewChatLayer(1, [content |-> OocText, color |-> "#A9C4E4", y |-> 740]),
     NewImageLayer(1, [src |-> "a.png", width |-> 100, height |-> 100]),
     Merge(NewImageLayer(1, [src |-> "a.png", width |-> 100, height |-> 100]),
           [locked |-> FALSE, visible |-> FALSE, scale |-> 5, x |-> 120, y |-> 40])}

InitRoundTrip ==
    /\ \E l \in OneLayers : layers = <<l>>
    /\ rendered = layers
    /\ selectedLayerId \in {Null, 1}
    /\ zoom = 1000
    /\ canvasSize = [width |-> 1280, height |-> 720]
    /\ pendingImages = <<>>
    /\ nextId = 2
    /\ isDragging = FALSE
    /\ dragStart = [x |-> 0, y |-> 0]
    /\ initialLayerPos = [x |-> 0, y |-> 0]
    /\ hasError = FALSE
    /\ loadedImages = {[id |-> layers[i].id, src |-> layers[i].src] :
                          i \in {k \in 1..Len(layers) : layers[k].type = IMAGE}}
    /\ imageLoads = <<>>
    /\ InitHistory
    /\ budget = MaxStoreEvents
    /\ keepTwo = TRUE

RoundTripNext ==
    \/ duplicateLayer
    \/ StoreDelete
    \/ StoreSelect
    \/ StoreUpdate

RoundTripSpec == InitRoundTrip /\ [][RoundTripNext]_vars

\* ------------------------------------------------------------- uploads
\* The editor with bitmaps of several sizes, one of which the browser cannot
\* decode; loads complete in any order.
Bitmaps ==
    Files \cup {[src |-> "b.png", width |-> 64, height |-> 48, decodable |-> TRUE],
                [src |-> "c.bin", width |-> 0, height |-> 0, decodable |-> FALSE]}

InitUpload == InitEditor /\ budget = MaxUploadEvents /\ keepTwo = FALSE

UploadImage == \E file \in Bitmaps \cup {UNDEFINED} : handleAddBaseImage(file)

UploadNext ==
    \/ UploadImage
    \/ ImageLoaded
    \/ QuickAdd
    \/ ListSelect
    \/ ListMove
    \/ PanelChange
    \/ PanelDelete
    \/ PanelDuplicate
    \/ scheduledRender

UploadSpec == InitUpload /\ [][UploadNext]_vars

\* ------------------------------------------------------------- the canvas
\* The editor with the bitmaps the canvas loads for its Image layers: uploads, text
\* layers, edits in the panel, moves in the list and drags, with loads that
\* complete at any time.
InitRender == InitEditor /\ budget = MaxRenderEvents /\ keepTwo = FALSE

BitmapLoaded == \E i \in 1..Len(imageLoads) : imageOnload(i)

RenderNext ==
    \/ AddImage
    \/ ImageLoaded
    \/ BitmapLoaded
    \/ QuickAdd
    \/ ListSelect
    \/ ListMove
    \/ PanelChange
    \/ PanelDelete
    \/ PanelDuplicate
    \/ MouseDown
    \/ MouseMove
    \/ scheduledRender

RenderSpec == InitRender /\ [][RenderNext]_vars

\* ------------------------------------------------------------- the error boundary
\* The store called with updates that make the render throw, with uploads whose
\* loads complete before and after.
InitBoundary == InitEditor /\ budget = MaxBoundaryEvents /\ keepTwo = FALSE

BoundaryNext ==
    \/ StoreAddImage
    \/ ImageLoaded
    \/ BitmapLoaded
    \/ StoreAddText
    \/ StoreUpdate
    \/ StoreSelect
    \/ scheduledRender

BoundarySpec == InitBoundary /\ [][BoundaryNext]_vars

\* ------------------------------------------------------------- the view
\* The zoom buttons of the toolbar.
InitView == InitEditor /\ budget = MaxViewEvents /\ keepTwo = FALSE

ViewNext ==
    \/ onZoomIn
    \/ onZoomOut

ViewSpec == InitView /\ [][ViewNext]_vars

\* ------------------------------------------------------------- the chat log parser
\* parseChatlog called on texts of up to MaxLines lines, with and without a
\* startY, and the chat tab of the layer list.
ChatLines ==
    {<<>>,
     <<" "," ">>,
     <<"\t","\r">>,
     <<"*"," ","w","a","v","e","s">>,
     <<"S","t","r","a","n","g","e","r"," ","s","a","y","s",":"," ","h","i">>,
     <<"(","("," ","o","o","c"," ",")",")">>,
     <<"[","1","2",":","0","0",":","0","0","]"," ","S","t","r","a","n","g","e","r"," ","s","a","y","s",":"," ","h","i">>,
     <<"[","1","2",":","0","0",":","0","0","]">>}

RECURSIVE JoinLines(_)
JoinLines(ls) ==
    IF Len(ls) = 1 THEN ls[1] ELSE ls[1] \o <<"\n">> \o JoinLines(Tail(ls))

ChatTexts == {JoinLines(ls) : ls \in UNION {[1..n -> ChatLines] : n \in 1..MaxLines}}

ParseArgs ==
    {[rawText |-> t] : t \in ChatTexts}
    \cup {[rawText |-> t, startY |-> y] : t \in ChatTexts, y \in {0, 1000}}

\* a call of parseChatlog, a pure function, on the arguments drawn: its result is
\* recorded
CallParseChatlog ==
    /\ last.op = "input"
    /\ UNCHANGED <<storeVars, viewVars, pendingImages, nextId, dragVars, hasError>>
    /\ Log([op |-> "parseChatlog", args |-> last.args, result |-> parseChatlog(last.args)])
    /\ Rendered(FALSE)

InitParse ==
    /\ InitState
    /\ last \in {[op |-> "input", args |-> args] : args \in ParseArgs}
    /\ pre = Snapshot
    /\ last2 = [op |-> "init"]
    /\ pre2 = pre
    /\ grab = [id |-> Null, x |-> 0, y |-> 0, px |-> 0, py |-> 0]
    /\ budget = 1
    /\ keepTwo = FALSE

ParseSpec == InitParse /\ [][CallParseChatlog]_vars

\* ------------------------------------------------------------- chat log lines
\* parseChatlog called, with the default startY, on texts of up to MaxLogLines
\* lines of the formats detectChatColor tells apart, with the timestamps the
\* pattern takes away and ones it does not.
LogLines ==
    {<<"*"," ","w","a","v","e","s">>,
     <<"S","t","r","a","n","g","e","r"," ","s","a","y","s",":"," ","h","i">>,
     <<"S","t","r","a","n","g","e","r"," ","S","H","O","U","T","S",":"," ","H","E","Y">>,
     <<"S","t","r","a","n","g","e","r"," ","W","h","i","s","p","e","r","s",":"," ","p","s","s","t">>,
     <<"(","("," ","o","o","c"," ",")",")">>,
     <<"(","("," ","o","o","c">>,
     <<"o","o","c"," ",")",")">>,
     <<"*"," ","S","t","r","a","n","g","e","r"," ","s","a","y","s",":"," ","h","i">>,
     <<"(","("," ","S","t","r","a","n","g","e","r"," ","s","a","y","s",":"," ","h","i"," ",")",")">>,
     <<"R","a","d","i","o",":"," ","t","e","x","t">>,
     <<" ","*"," ","w","a","v","e","s">>,
     <<" "," ">>,
     <<"[","1","2",":","0","0",":","0","0","]"," ","*"," ","w","a","v","e","s">>,
     <<"[","1","2",":","0","0",":","0","0","]"," ","S","t","r","a","n","g","e","r"," ","s","a","y","s",":"," ","h","i">>,
     <<"[","1","2",":","0","0",":","0","0","]","(","("," ","o","o","c"," ",")",")">>,
     <<"[","1","2",":","0","0",":","0","0","]"," "," ","\t","(","("," ","O","O","C">>,
     <<"[","1","2",":","0","0",":","0","0","]">>,
     <<"[","1","2",":","0","0",":","0","0","]"," ","[","1","2",":","0","0",":","0","1","]"," ","o","o","c"," ",")",")">>,
     <<"[","1",":","0","0",":","0","0","]"," ","(","("," ","o","o","c"," ",")",")">>,
     <<"[","1","2",":","0","0",":","0","0"," ","*"," ","w","a","v","e","s">>,
     <<" ","[","1","2",":","0","0",":","0","0","]"," ","*"," ","w","a","v","e","s">>,
     <<"[","a","b",":","c","d",":","e","f","]"," ","(","("," ","o","o","c">>}

LogTexts == {JoinLines(ls) : ls \in UNION {[1..n -> LogLines] : n \in 1..MaxLogLines}}

InitChatLog ==
    /\ InitState
    /\ last \in {[op |-> "input", args |-> [rawText |-> t]] : t \in LogTexts}
    /\ pre = Snapshot
    /\ last2 = [op |-> "init"]
    /\ pre2 = pre
    /\ grab = [id |-> Null, x |-> 0, y |-> 0, px |-> 0, py |-> 0]
    /\ budget = 1
    /\ keepTwo = FALSE

ChatLogSpec == InitChatLog /\ [][CallParseChatlog]_vars

\* ------------------------------------------------------------- the chat tab
\* Chat logs pasted and processed, and records added in bulk, on a store with text
\* layers that are selected and deleted.
InitChat == InitEditor /\ budget = MaxChatEvents /\ keepTwo = FALSE

ChatNext ==
    \/ ChatParse
    \/ StoreBulkAdd
    \/ QuickAdd
    \/ ListSelect
    \/ PanelDelete

ChatSpec == InitChat /\ [][ChatNext]_vars

\* ------------------------------------------------------------- properties
Ids(ls) == {ls[i].id : i \in 1..Len(ls)}
Top(ls) == ls[Len(ls)]
MaxOf(S) == CHOOSE i \in S : \A j \in S : j <= i

\* the indexes of the layers of ls a pointer-down at (x, y) can take: visible,
\* unlocked, and with (x, y) in their box
UnderPointer(ls, x, y) ==
    {i \in 1..Len(ls) : ls[i].visible /\ ~ls[i].locked /\ InHitBox(ls[i], x, y)}

\* the indexes of the locked or hidden layers of ls
Protected(ls) == {i \in 1..Len(ls) : ~ls[i].visible \/ ls[i].locked}

\* C1: when the boxes of several visible, unlocked layers contain the pointer,
\* a pointer-down selects the one with the highest index (the topmost).
C1_TopmostHitSelected ==
    last.op = "handleMouseDown" =>
        LET under == UnderPointer(pre.layers, last.x, last.y)
        IN Cardinality(under) >= 2 =>
              /\ selectedLayerId = pre.layers[MaxOf(under)].id
              /\ \A i \in under \ {MaxOf(under)} : selectedLayerId # pre.layers[i].id

C1_Witness ==
    /\ last.op = "handleMouseDown"
    /\ Cardinality(UnderPointer(pre.layers, last.x, last.y)) >= 2
    /\ selectedLayerId = pre.layers[MaxOf(UnderPointer(pre.layers, last.x, last.y))].id

\* C2: after a pointer-down no locked or hidden layer is the selection, and no drag
\* has been started on one, whatever else lies under the pointer.
C2_ProtectedNeverTaken ==
    last.op = "handleMouseDown" =>
        \A i \in Protected(pre.layers) :
            /\ selectedLayerId # pre.layers[i].id
            /\ ~(isDragging /\ selectedLayerId = pre.layers[i].id)

\* a pointer-down inside the box of a locked or hidden layer that lies above every
\* other layer under the pointer, and that took a layer below it
C2_Witness ==
    /\ last.op = "handleMouseDown"
    /\ selectedLayerId # Null
    /\ isDragging
    /\ \E i \in Protected(pre.layers) :
           /\ InHitBox(pre.layers[i], last.x, last.y)
           /\ \A j \in UnderPointer(pre.layers, last.x, last.y) : j < i

\* C3: a pointer-down that hits no layer leaves no layer selected, starts no drag
\* and leaves the layers as they were.
C3_MissClearsSelection ==
    (last.op = "handleMouseDown" /\ UnderPointer(pre.layers, last.x, last.y) = {}) =>
        /\ selectedLayerId = Null
        /\ isDragging = pre.isDragging
        /\ layers = pre.layers

\* a miss on a canvas that has layers, one of them selected and no drag under way
C3_Witness ==
    /\ last.op = "handleMouseDown"
    /\ UnderPointer(pre.layers, last.x, last.y) = {}
    /\ pre.layers # <<>>
    /\ pre.selectedLayerId # Null
    /\ ~pre.isDragging
    /\ selectedLayerId = Null
    /\ ~isDragging

\* C4: deleteLayer(id) removes the layer with that id and keeps the others in their
\* order; the selection becomes none if it was id and is unchanged otherwise.
C4_DeleteRemovesAndClears ==
    (last.op = "deleteLayer" /\ last.id \in Ids(pre.layers)) =>
        /\ last.id \notin Ids(layers)
        /\ layers = SelectSeq(pre.layers, LAMBDA l : l.id # last.id)
        /\ (pre.selectedLayerId = last.id => selectedLayerId = Null)
        /\ (pre.selectedLayerId # last.id => selectedLayerId = pre.selectedLayerId)

\* a delete of one of several layers while another layer is the selection
C4_Witness ==
    /\ last.op = "deleteLayer"
    /\ last.id \in Ids(pre.layers)
    /\ Len(pre.layers) >= 2
    /\ pre.selectedLayerId \in Ids(pre.layers) \ {last.id}
    /\ selectedLayerId = pre.selectedLayerId
    /\ Len(layers) = Len(pre.layers) - 1
    /\ layers # <<>>

\* C5: reorderLayers with a target index outside the bounds of the list is a no-op.
C5_OutOfBoundsTargetIsNoOp ==
    (/\ last.op = "reorderLayers"
     /\ last.fromIndex >= 0 /\ last.fromIndex < Len(pre.layers)
     /\ (last.toIndex < 0 \/ last.toIndex >= Len(pre.layers))) =>
        layers = pre.layers

\* reorderLayers(0, 5) on three layers moved the first one to the end
C5_Reached ==
    /\ last.op = "reorderLayers"
    /\ last.fromIndex = 0 /\ last.toIndex = 5
    /\ Len(pre.layers) = 3
    /\ layers = <<pre.layers[2], pre.layers[3], pre.layers[1]>>

\* the indexes of the Text layers of ls
TextIndexes(ls) == {i \in 1..Len(ls) : ls[i].type = TEXT}

\* handleAddText ran last, and was passed no yOffset
DefaultAdd == last.op = "handleAddText" /\ "yOffset" \notin DOMAIN last.args

\* handleAddText ran last, and was passed a yOffset
ExplicitAdd == last.op = "handleAddText" /\ "yOffset" \in DOMAIN last.args

C7_ExplicitYUsed ==
    ExplicitAdd => Top(layers).y = last.args.yOffset

\* handleAddText(text, color, 0) on an empty store put the layer at y = 50
C7_Reached ==
    /\ ExplicitAdd
    /\ last.args.yOffset = 0
    /\ pre.layers = <<>>
    /\ Top(layers).y = 500

\* C8: after handleAddText the new Text layer is the last of the sequence, the
\* layers that were there come before it in the order they had, and the new layer
\* is the selection.
C8_AddedOnTopAndSelected ==
    last.op = "handleAddText" =>
        /\ Len(layers) = Len(pre.layers) + 1
        /\ SubSeq(layers, 1, Len(pre.layers)) = pre.layers
        /\ Top(layers).type = TEXT
        /\ Top(layers).content = last.args.text
        /\ selectedLayerId = Top(layers).id

\* an add on a store of several layers, another layer being the selection
C8_Witness ==
    /\ last.op = "handleAddText"
    /\ Len(pre.layers) >= 2
    /\ pre.selectedLayerId \in Ids(pre.layers)
    /\ Top(pre.layers).id # pre.selectedLayerId
    /\ selectedLayerId = Top(layers).id

\* the layer of ls with the given id
LayerOf(ls, id) == ls[CHOOSE i \in 1..Len(ls) : ls[i].id = id]

\* c has the fields of o, with the values of o in all but id, name, x and y
SameButIdNamePosition(c, o) ==
    /\ DOMAIN c = DOMAIN o
    /\ \A k \in DOMAIN o \ {"id", "name", "x", "y"} : c[k] = o[k]

\* C9: duplicateLayer on an existing layer appends a clone with an id no layer
\* had, the name followed by " (Copy)", x and y greater by 20; the clone becomes the
\* selection and the layers that were there, the original among them, are unchanged.
C9_DuplicateAppendsClone ==
    (last.op = "duplicateLayer" /\ pre.selectedLayerId \in Ids(pre.layers)) =>
        LET original == LayerOf(pre.layers, pre.selectedLayerId)
            clone == Top(layers)
        IN /\ Len(layers) = Len(pre.layers) + 1
           /\ SubSeq(layers, 1, Len(pre.layers)) = pre.layers
           /\ clone.id \notin Ids(pre.layers)
           /\ clone.name = original.name \o <<" ", "(", "C", "o", "p", "y", ")">>
           /\ clone.x = original.x + 200
           /\ clone.y = original.y + 200
           /\ SameButIdNamePosition(clone, original)
           /\ selectedLayerId = clone.id

\* a duplicate of a layer that is not the topmost of several
C9_Witness ==
    /\ last.op = "duplicateLayer"
    /\ pre.selectedLayerId \in Ids(pre.layers)
    /\ Len(pre.layers) >= 2
    /\ Top(pre.layers).id # pre.selectedLayerId
    /\ selectedLayerId = Top(layers).id
    /\ Len(layers) = Len(pre.layers) + 1

\* the store held the one layer L, duplicateLayer ran on L, and deleteLayer(L.id)
\* ran next
RoundTrip ==
    /\ last2.op = "duplicateLayer"
    /\ Len(pre2.layers) = 1
    /\ pre2.selectedLayerId = pre2.layers[1].id
    /\ last.op = "deleteLayer"
    /\ last.id = pre2.layers[1].id

\* C10: from a store of one layer L, duplicating L and then deleting L leaves one
\* layer, with x and y those of L plus 20 and every field but id and name as in L.
C10_DuplicateThenDelete ==
    RoundTrip =>
        LET L == pre2.layers[1]
        IN /\ Len(layers) = 1
           /\ layers[1].x = L.x + 200
           /\ layers[1].y = L.y + 200
           /\ SameButIdNamePosition(layers[1], L)

\* the round trip on an image layer
C10_Witness ==
    /\ RoundTrip
    /\ pre2.layers[1].type = IMAGE
    /\ Len(layers) = 1
    /\ layers[1].x = pre2.layers[1].x + 200

\* C11: updateLayer(id, partialFields) leaves the id and the type of every layer as
\* they were, for every partialFields, and leaves the layers with another id
\* unchanged.
C11_UpdateKeepsIdAndType ==
    last.op = "updateLayer" =>
        /\ Len(layers) = Len(pre.layers)
        /\ \A i \in 1..Len(pre.layers) :
               /\ layers[i].id = pre.layers[i].id
               /\ layers[i].type = pre.layers[i].type
               /\ pre.layers[i].id # last.id => layers[i] = pre.layers[i]

\* updateLayer(id, {type: 'image'}) made a Text layer an Image layer
C11_Reached ==
    /\ last.op = "updateLayer"
    /\ last.updates = [type |-> IMAGE]
    /\ \E i \in 1..Len(pre.layers) :
           /\ pre.layers[i].id = last.id
           /\ pre.layers[i].type = TEXT
           /\ layers[i].type = IMAGE
           /\ "content" \in DOMAIN layers[i]

\* the layers, the selection and the editor are as they were before the last call
NothingChanged ==
    /\ layers = pre.layers
    /\ selectedLayerId = pre.selectedLayerId
    /\ ~hasError

\* C12: updateLayer and deleteLayer with an id that no layer has, and
\* duplicateLayer with no layer selected, leave the layers and the selection
\* unchanged and raise no error.
C12_UnknownIdIsNoOp ==
    /\ (last.op \in {"updateLayer", "deleteLayer"} /\ last.id \notin Ids(pre.layers))
          => NothingChanged
    /\ (last.op = "duplicateLayer" /\ pre.selectedLayerId \notin Ids(pre.layers))
          => NothingChanged

\* deleteLayer(id) with an id that no layer has, but that the selection held,
\* cleared the selection
C12_Reached ==
    /\ last.op = "deleteLayer"
    /\ last.id \notin Ids(pre.layers)
    /\ pre.selectedLayerId = last.id
    /\ layers = pre.layers
    /\ selectedLayerId = Null

\* the ids were pairwise distinct when the last call started
C13_IdsUniqueBefore ==
    \A i, j \in 1..Len(pre.layers) : i # j => pre.layers[i].id # pre.layers[j].id

\* C13: in every state no two layers of the store have the same id.
C13_IdsUnique ==
    \A i, j \in 1..Len(layers) :
        (i # j /\ layers[i] # UNDEFINED /\ layers[j] # UNDEFINED)
            => layers[i].id # layers[j].id

\* updateLayer(id, {id: ...}) gave a layer the id of another layer
C13_Reached ==
    /\ last.op = "updateLayer"
    /\ "id" \in DOMAIN last.updates
    /\ C13_IdsUniqueBefore
    /\ \E i, j \in 1..Len(layers) : i < j /\ layers[i].id = layers[j].id

\* C14: in every state the selection is none or the id of exactly one layer of the
\* store: never the id of a layer that was deleted or that never was.
C14_SelectionIsALayer ==
    \/ selectedLayerId = Null
    \/ Cardinality({i \in 1..Len(layers) :
                       layers[i] # UNDEFINED /\ layers[i].id = selectedLayerId}) = 1

\* the selected layer was deleted from the panel, other layers remaining
C14_Witness ==
    /\ last.op = "deleteLayer"
    /\ pre.selectedLayerId = last.id
    /\ last.id \in Ids(pre.layers)
    /\ layers # <<>>
    /\ selectedLayerId = Null

\* C15: handleBulkAddText appends one Text layer per record, in the order of the
\* records, after the layers that were there, each with the content, color and y of
\* its record, fontSize 13, lineHeight 1.1 and the name "Chat Line"; the selection
\* is unchanged.
C15_BulkAddAppendsInOrder ==
    last.op = "handleBulkAddText" =>
        LET n == Len(pre.layers)
        IN /\ Len(layers) = n + Len(last.textItems)
           /\ SubSeq(layers, 1, n) = pre.layers
           /\ \A i \in 1..Len(last.textItems) :
                  /\ layers[n + i].type = TEXT
                  /\ layers[n + i].content = last.textItems[i].content
                  /\ layers[n + i].color = last.textItems[i].color
                  /\ layers[n + i].y = last.textItems[i].y
                  /\ layers[n + i].fontSize = 13
                  /\ layers[n + i].lineHeight = 11
                  /\ layers[n + i].name = <<"C","h","a","t"," ","L","i","n","e">>
           /\ selectedLayerId = pre.selectedLayerId

\* a bulk add of several records to a store that has layers, one of them selected
C15_Witness ==
    /\ last.op = "handleBulkAddText"
    /\ Len(last.textItems) >= 2
    /\ last.textItems[1] # last.textItems[2]
    /\ pre.layers # <<>>
    /\ pre.selectedLayerId \in Ids(pre.layers)
    /\ selectedLayerId = pre.selectedLayerId
    /\ Len(layers) = Len(pre.layers) + Len(last.textItems)

\* C16: when an image load completes the store gains one Image layer at index 0,
\* below the layers that were there, with the width and height of the bitmap,
\* x = y = 0, scale 1, rotation 0, filters 100, 100, 100 and blur 0, locked and
\* visible.
C16_LoadedImageAtBottom ==
    last.op = "imgOnload" =>
        /\ Len(layers) = Len(pre.layers) + 1
        /\ SubSeq(layers, 2, Len(layers)) = pre.layers
        /\ layers[1].type = IMAGE
        /\ layers[1].width = last.img.width /\ layers[1].height = last.img.height
        /\ layers[1].x = 0 /\ layers[1].y = 0
        /\ layers[1].scale = 10 /\ layers[1].rotation = 0
        /\ layers[1].filters = [brightness |-> 100, contrast |-> 100,
                                saturation |-> 100, blur |-> 0]
        /\ layers[1].locked /\ layers[1].visible

\* a load completed on a store that held a text layer and an earlier image
C16_Witness ==
    /\ last.op = "imgOnload"
    /\ \E i, j \in 1..Len(pre.layers) :
           pre.layers[i].type = TEXT /\ pre.layers[j].type = IMAGE
    /\ layers[1].id = last.id
    /\ layers[1].width # layers[2].width

\* C17: a load that completes sets the canvas to the width and height of its
\* bitmap, and nothing else changes the canvas: the canvas has the size of the
\* image whose load completed last.
C17_CanvasFollowsLastLoad ==
    /\ last.op = "imgOnload" =>
           canvasSize = [width |-> last.img.width, height |-> last.img.height]
    /\ last.op # "imgOnload" => canvasSize = pre.canvasSize

\* a second load completed, of a bitmap of another size than the canvas had
C17_Witness ==
    /\ last.op = "imgOnload"
    /\ \E i \in 1..Len(pre.layers) : pre.layers[i].type = IMAGE
    /\ pre.canvasSize # [width |-> 1280, height |-> 720]
    /\ pre.canvasSize # canvasSize
    /\ canvasSize = [width |-> last.img.width, height |-> last.img.height]

\* C18: the canvas is 1280 x 720 as long as no image has been uploaded; a load that
\* completes when the store holds an uploaded image does not change the canvas,
\* and no other operation does.
C18_CanvasKeepsFirstImage ==
    /\ (nextId = 1 /\ pendingImages = <<>>) =>
           canvasSize = [width |-> 1280, height |-> 720]
    /\ (last.op = "imgOnload" /\ \E i \in 1..Len(pre.layers) : pre.layers[i].type = IMAGE)
           => canvasSize = pre.canvasSize
    /\ last.op # "imgOnload" => canvasSize = pre.canvasSize

\* a.png (100 x 100) loaded, then b.png (64 x 48): the canvas went from 100 x 100
\* to 64 x 48
C18_Reached ==
    /\ last.op = "imgOnload"
    /\ last.img.src = "b.png"
    /\ Len(pre.layers) = 1 /\ pre.layers[1].type = IMAGE /\ pre.layers[1].src = "a.png"
    /\ pre.canvasSize = [width |-> 100, height |-> 100]
    /\ canvasSize = [width |-> 64, height |-> 48]

\* C19: the zoom factor starts at 1, is between 0.1 and 3.0 after any sequence of
\* zoom-ins and zoom-outs, and a zoom-in at 3.0 and a zoom-out at 0.1 leave it as
\* it is.
C19_ZoomWithinBounds ==
    /\ last.op = "init" => zoom = 1000
    /\ zoom >= 100 /\ zoom <= 3000
    /\ (last.op = "onZoomIn" /\ pre.zoom = 3000) => zoom = 3000
    /\ (last.op = "onZoomOut" /\ pre.zoom = 100) => zoom = 100

\* a zoom-in at 3.0
C19_Witness ==
    /\ last.op = "onZoomIn"
    /\ pre.zoom = 3000
    /\ zoom = 3000

\* the indexes of the lines that are not blank: that hold a character other than
\* white space
NonBlankIndexes(lines) ==
    {k \in 1..Len(lines) : \E j \in 1..Len(lines[k]) : lines[k][j] \notin WhiteSpace}

\* the i-th element of a set of numbers, in increasing order
NthOf(S, i) == CHOOSE k \in S : Cardinality({m \in S : m < k}) = i - 1

IsSuffix(t, s) == Len(t) <= Len(s) /\ SubSeq(s, Len(s) - Len(t) + 1, Len(s)) = t

\* C20: parseChatlog returns one record per line that is not blank after trimming,
\* in the order of the lines, the i-th (from 0) with y = startY + 24 * i, startY
\* being 50 when not passed; blank lines give no record and take no pitch.
C20_OneRecordPerNonBlankLine ==
    last.op = "parseChatlog" =>
        LET lines == Split(last.args.rawText)
            kept == NonBlankIndexes(lines)
            startY == IF "startY" \in DOMAIN last.args THEN last.args.startY ELSE 500
        IN /\ Len(last.result) = Cardinality(kept)
           /\ \A i \in 1..Len(last.result) :
                  /\ last.result[i].y = startY + 240 * (i - 1)
                  /\ IsSuffix(last.result[i].content, lines[NthOf(kept, i)])

\* a text whose first line is blank and that has a blank line between two others,
\* parsed with the default startY
C20_Witness ==
    /\ last.op = "parseChatlog"
    /\ "startY" \notin DOMAIN last.args
    /\ NonBlankIndexes(Split(last.args.rawText)) = {2, 4}
    /\ Len(last.result) = 2
    /\ last.result[1].y = 500 /\ last.result[2].y = 740
    /\ last.result[1].content # last.result[2].content

\* the two characters are the same letter, in whichever case
SameLetter(a, b) == a = b \/ \E n \in 1..26 : {a, b} = {UpperCase[n], LowerCase[n]}

\* s contains p, case not counting
ContainsNoCase(s, p) ==
    \E k \in 1..(Len(s) - Len(p) + 1) : \A j \in 1..Len(p) : SameLetter(s[k + j - 1], p[j])

Speaks(s) ==
    \/ ContainsNoCase(s, <<"s","a","y","s",":">>)
    \/ ContainsNoCase(s, <<"s","h","o","u","t","s",":">>)
    \/ ContainsNoCase(s, <<"w","h","i","s","p","e","r","s",":">>)

Starred(s) == Len(s) >= 1 /\ s[1] = "*"

Bracketed(s) ==
    \/ (Len(s) >= 2 /\ s[1] = "(" /\ s[2] = "(")
    \/ (Len(s) >= 2 /\ s[Len(s) - 1] = ")" /\ s[Len(s)] = ")")

\* C21: the colour of every record is decided on its content, the line without its
\* timestamp, by the first rule that matches: a leading '*' gives #C2A2DA; else
\* 'says:', 'shouts:' or 'whispers:' in any case gives #FFFFFF; else a leading
\* '((' or a trailing '))' gives #A9C4E4; else #FFFFFF.
C21_FirstMatchingRuleColours ==
    last.op = "parseChatlog" =>
        \A i \in 1..Len(last.result) :
            LET text == last.result[i].content
                color == last.result[i].color
            IN /\ Starred(text) => color = "#C2A2DA"
               /\ (~Starred(text) /\ Speaks(text)) => color = "#FFFFFF"
               /\ (~Starred(text) /\ ~Speaks(text) /\ Bracketed(text)) => color = "#A9C4E4"
               /\ (~Starred(text) /\ ~Speaks(text) /\ ~Bracketed(text)) => color = "#FFFFFF"

\* an action line that contains 'says:' and came with a timestamp, and an
\* OOC-bracketed line that contains 'says:'
C21_Witness ==
    /\ last.op = "parseChatlog"
    /\ Len(last.result) = 2
    /\ Split(last.args.rawText)[1][1] = "["
    /\ Starred(last.result[1].content) /\ last.result[1].color = "#C2A2DA"
    /\ Bracketed(last.result[2].content) /\ Speaks(last.result[2].content)
    /\ last.result[2].color = "#FFFFFF"

\* s starts with [dd:dd:dd], d being a decimal digit
TimestampAt(s) ==
    /\ Len(s) >= 10
    /\ <<s[1], s[4], s[7], s[10]>> = <<"[", ":", ":", "]">>
    /\ {s[2], s[3], s[5], s[6], s[8], s[9]} \subseteq Digits

\* t is s without its first n characters and without the white space after them
DroppedPrefix(t, s, n) ==
    /\ IsSuffix(t, s)
    /\ Len(t) <= Len(s) - n
    /\ \A k \in (n + 1)..(Len(s) - Len(t)) : s[k] \in WhiteSpace
    /\ (t # <<>> => t[1] \notin WhiteSpace)

\* C22: the content of the record of a line that begins with [HH:MM:SS], two
\* digits each, is the line without that timestamp and the white space after it;
\* the content of the record of any other line is the line.
C22_TimestampStripped ==
    last.op = "parseChatlog" =>
        LET lines == Split(last.args.rawText)
            kept == NonBlankIndexes(lines)
        IN /\ Len(last.result) = Cardinality(kept)
           /\ \A i \in 1..Len(last.result) :
                  LET line == lines[NthOf(kept, i)]
                  IN IF TimestampAt(line)
                     THEN DroppedPrefix(last.result[i].content, line, 10)
                     ELSE last.result[i].content = line

\* a line with a timestamp and one with brackets that hold no timestamp
C22_Witness ==
    /\ last.op = "parseChatlog"
    /\ Len(last.result) = 2
    /\ LET lines == Split(last.args.rawText)
       IN /\ TimestampAt(lines[1])
          /\ Len(last.result[1].content) > 0
          /\ Len(last.result[1].content) < Len(lines[1]) - 10
          /\ ~TimestampAt(lines[2]) /\ lines[2][1] = "[" /\ lines[2][10] = "]"
          /\ last.result[2].content = lines[2]

\* what is on the canvas: the calls of the render loop for the layers and bitmaps as
\* they are
Canvas == RenderLoop(rendered, loadedImages)

\* where on the canvas the layer with this id is drawn
DrawnAt(id) == {k \in 1..Len(Canvas) : Canvas[k].id = id}

\* the layers a render can draw: the Text layers, and the Image layers whose
\* bitmap is loaded
Drawable(l) == l.type = TEXT \/ (l.type = IMAGE /\ Loaded(loadedImages, l.id))

C24_UnloadedImageSkipped ==
    /\ ~hasError
    /\ \A i \in 1..Len(rendered) :
           (rendered[i].type = IMAGE /\ ~Loaded(loadedImages, rendered[i].id))
               => DrawnAt(rendered[i].id) = {}
    /\ \A i \in 1..Len(rendered) :
           (rendered[i].visible /\ rendered[i].type = TEXT) => DrawnAt(rendered[i].id) # {}
    /\ \A k, m \in 1..Len(Canvas) :
           k < m => \E i, j \in 1..Len(rendered) :
                        i < j /\ rendered[i].id = Canvas[k].id /\ rendered[j].id = Canvas[m].id
    /\ last.op = "imageOnload" =>
           \A i \in 1..Len(rendered) :
               (rendered[i].id = last.id /\ rendered[i].visible) => DrawnAt(last.id) # {}

\* the first load of an Image layer completes on a canvas that showed a Text layer
\* without it: both are drawn now
C24_Witness ==
    /\ last.op = "imageOnload"
    /\ ~last.again
    /\ DrawnAt(last.id) # {}
    /\ \E i \in 1..Len(layers) : layers[i].type = TEXT /\ DrawnAt(layers[i].id) # {}
    /\ Len(imageLoads) = 0

\* the loads in flight for the layer with this id
LoadsFor(id) == {k \in 1..Len(imageLoads) : imageLoads[k].id = id}

\* C25: no Image layer has more than one load, in flight or completed, and no
\* load completes for a layer whose bitmap is already there.
C25_OneLoadPerImageLayer ==
    /\ \A i \in 1..Len(layers) :
           layers[i].type = IMAGE =>
               Cardinality(LoadsFor(layers[i].id))
                   + (IF Loaded(loadedImages, layers[i].id) THEN 1 ELSE 0) <= 1
    /\ last.op = "imageOnload" => ~last.again

\* an upload, a text layer added while the bitmap of the Image layer was loading,
\* and two loads completed for that one layer
C25_Reached ==
    /\ last.op = "imageOnload"
    /\ last.again
    /\ \E i \in 1..Len(layers) : layers[i].id = last.id /\ layers[i].type = IMAGE
    /\ Cardinality({i \in 1..Len(layers) : layers[i].type = IMAGE}) = 1

\* C27: once the ErrorBoundary shows the error screen it shows it after every
\* later event: no step leads from hasError back to the editor.
C27_ErrorScreenStays == [][hasError => hasError']_vars

\* a load that was pending when the render threw has completed on the error screen
C27_Witness ==
    /\ hasError
    /\ last.op = "imgOnload"
    /\ layers = pre.layers
    /\ layers # <<>>

\* a drag is in progress: a pointer-down has hit a layer and no pointer-up or
\* pointer-leave has come since
Dragging(isDown) == isDown /\ grab.id # Null

\* ls with the position of the layer id set to (x, y), and nothing else changed
MovedTo(ls, id, x, y) ==
    [i \in 1..Len(ls) |-> IF ls[i].id = id THEN [ls[i] EXCEPT !.x = x, !.y = y] ELSE ls[i]]

\* C26: while a drag is in progress a pointer-move puts the layer the pointer-down
\* hit at its position at pointer-down plus the way the pointer has gone since,
\* and changes no other field and no other layer; with no drag in progress a
\* pointer-move changes nothing.
C26_MoveDragsTheHitLayer ==
    last.op = "handleMouseMove" =>
        IF Dragging(pre.isDragging)
        THEN layers = MovedTo(pre.layers, grab.id,
                              grab.x + (last.x - grab.px), grab.y + (last.y - grab.py))
        ELSE layers = pre.layers

\* pointer-down on a text layer, a text layer added from the quick-add buttons,
\* pointer-move: the new layer is where the hit one should be, the hit one has not
\* moved
C26_Reached ==
    /\ last.op = "handleMouseMove"
    /\ Dragging(pre.isDragging)
    /\ \E i, j \in 1..Len(layers) :
           /\ layers[i].id = grab.id /\ layers[j].id # grab.id
           /\ layers[i] = pre.layers[i]
           /\ layers[j].x = grab.x + (last.x - grab.px)
           /\ layers[j].y = grab.y + (last.y - grab.py)
           /\ <<layers[j].x, layers[j].y>> # <<pre.layers[j].x, pre.layers[j].y>>

\* C29: between a pointer-down that hits a layer and the pointer-up or
\* pointer-leave that follows, a pointer-move changes the position of that layer
\* only, whatever has become of the selection in between.
C29_OnlyTheHitLayerMoves ==
    (last.op = "handleMouseMove" /\ Dragging(pre.isDragging)) =>
        \A i \in 1..Len(layers) :
            pre.layers[i].id # grab.id => layers[i] = pre.layers[i]

\* pointer-down on a layer, another layer selected in the layer list, pointer-move:
\* the layer selected in the list has moved
C29_Reached ==
    /\ last.op = "handleMouseMove"
    /\ Dragging(pre.isDragging)
    /\ pre.selectedLayerId # grab.id
    /\ \E i \in 1..Len(layers) :
           /\ layers[i].id = pre.selectedLayerId
           /\ layers[i].id # grab.id
           /\ layers[i] # pre.layers[i]
    /\ \E i \in 1..Len(layers) : layers[i].id = grab.id

\* the same move when the selection is still the layer the pointer-down hit
PointerOnlyDrag ==
    (last.op = "handleMouseMove" /\ Dragging(pre.isDragging)
         /\ pre.selectedLayerId = grab.id) =>
        layers = MovedTo(pre.layers, grab.id,
                         grab.x + (last.x - grab.px), grab.y + (last.y - grab.py))

\* the ids of the Image layers of ls
ImageIds(ls) == {ls[i].id : i \in {k \in 1..Len(ls) : ls[k].type = IMAGE}}

\* C28: an Image layer a completed load has added stays in the store until it is
\* deleted, and the load keeps every layer that was there: no operation but
\* deleteLayer takes a layer away, and deleteLayer takes away the one it is called
\* for.
C28_LoadedImageNeverLost ==
    /\ last.op = "imgOnload" =>
           /\ last.id \in ImageIds(layers)
           /\ \A i \in 1..Len(pre.layers) : \E j \in 1..Len(layers) : layers[j] = pre.layers[i]
    /\ last.op # "deleteLayer" => ImageIds(pre.layers) \subseteq ImageIds(layers)
    /\ last.op = "deleteLayer" => ImageIds(pre.layers) \ {last.id} \subseteq ImageIds(layers)

\* a load completes, and before the render it has scheduled a layer is moved in
\* the layer list: the store is the list as it was shown, without the Image layer
C28_Reached ==
    /\ last.op = "reorderLayers"
    /\ ~hasError
    /\ Len(layers) = Len(pre.layers) - 1
    /\ pre.rendered = Tail(pre.layers)
    /\ pre.layers[1].type = IMAGE
    /\ pre.layers[1].id \notin Ids(layers)
    /\ Ids(layers) = Ids(pre.layers) \ {pre.layers[1].id}

\* how many times x is an entry of ls
Count(ls, x) == Cardinality({i \in 1..Len(ls) : ls[i] = x})

\* a and b have the same entries, each as many times
Permutation(a, b) ==
    /\ Len(a) = Len(b)
    /\ \A i \in 1..Len(a) : Count(a, a[i]) = Count(b, a[i])

\* C30: whatever the two indexes, reorderLayers leaves a permutation of the layers
\* there were, the same layers with the same fields and no undefined entry, and
\* the selection as it was.
C30_ReorderIsPermutation ==
    last.op = "reorderLayers" =>
        /\ Permutation(layers, pre.layers)
        /\ Defined(layers)
        /\ selectedLayerId = pre.selectedLayerId

\* reorderLayers(2, 0) on the two layers [a, b], shown as they are: the result is
\* [undefined, a, b]
C30_Reached ==
    /\ last.op = "reorderLayers"
    /\ last.fromIndex = 2 /\ last.toIndex = 0
    /\ Len(pre.layers) = 2
    /\ Defined(pre.layers)
    /\ pre.rendered = pre.layers
    /\ layers = <<UNDEFINED>> \o pre.layers

\* reorderLayers with a fromIndex that is an index of the list, or negative, and
\* any toIndex, on a list that is not empty and is shown as it is
InRangeReorderIsPermutation ==
    (/\ last.op = "reorderLayers"
     /\ pre.layers # <<>>
     /\ last.fromIndex < Len(pre.layers)
     /\ Defined(pre.layers)
     /\ pre.rendered = pre.layers) =>
        /\ Permutation(layers, pre.layers)
        /\ selectedLayerId = pre.selectedLayerId

====
